---- MODULE Spec2Model ----
(***************************************************************************)
(* Turtle's Adventure (src/turtle_adventure.py): the game session, the     *)
(* player, the enemy variants and the enemy generator as a state machine.  *)
(*                                                                         *)
(* Coordinates are Python floats in the source.  Here every coordinate and *)
(* speed is a fixed-point integer counting 1/Scale of a unit, so that the  *)
(* source's fractional constants (0.2, 1.5, 2.75, size/2) are exact.       *)
(* random.randint / random.choice draw from the generator state rng.       *)
(***************************************************************************)
EXTENDS Integers, Sequences, FiniteSets, TLC

VARIABLES
    level,      \* TurtleAdventureGame.level
    screen,     \* [w, h]: screen_width, screen_height (whole units)
    running,    \* the session is ticking (Game.start() done, Game.stop() not yet)
    player,     \* [x, y]: the turtle's position (fixed point)
    waypoint,   \* [active, x, y]
    home,       \* [x, y, size]
    elements,   \* the enemies registered with add_element, in order
    enemies,    \* TurtleAdventureGame.enemies
    timers,     \* callbacks pending in the delayed-callback service, by due time
    rng,        \* state of the random generator
    texts,      \* end messages created on the canvas, one per game_over_* call
    ticks,      \* frame passes done
    clicks,     \* clicks made
    atSignal    \* history: positions when the first game_over_* call was made

vars == <<level, screen, running, player, waypoint, home, elements, enemies,
          timers, rng, texts, ticks, clicks, atSignal>>

----------------------------------------------------------------------------
(* Bounds of the model *)

\* frame passes explored in one session
MaxTicks == 17
\* clicks explored in one session
MaxClicks == 2
\* the generator is explored at the levels 0..MaxLevel
MaxLevel == 41
\* seeds of the random generator are 0..MaxSeed
MaxSeed == 2

----------------------------------------------------------------------------
(* Fixed-point arithmetic standing for the source's floats *)

\* resolution: one unit of the source is Scale units here
Scale == 20

FP(n) == n * Scale

Abs(n) == IF n < 0 THEN -n ELSE n

Max(a, b) == IF a >= b THEN a ELSE b

\* a / b rounded to the nearest integer, b > 0
RoundDiv(a, b) == (2 * a + b) \div (2 * b)

RECURSIVE SqrtIter(_, _, _)
SqrtIter(n, lo, hi) ==
    IF lo >= hi THEN lo
    ELSE LET mid == (lo + hi + 1) \div 2
         IN IF mid * mid <= n THEN SqrtIter(n, mid, hi)
                              ELSE SqrtIter(n, lo, mid - 1)

\* floor of the square root of n, 0 <= n < 2^31
ISqrt(n) == SqrtIter(n, 0, 46340)

\* speed * (cos(deg), sin(deg)) with deg = atan2(dy, dx): the displacement of
\* one step of length spd along the direction (dx, dy).  atan2(0, 0) is 0, so a
\* zero direction steps along +x.  Short directions are magnified before the
\* square root so that the result is within one fixed-point unit.
Forward(spd, dx, dy) ==
    IF dx = 0 /\ dy = 0 THEN <<spd, 0>>
    ELSE LET k == IF Abs(dx) < 500 /\ Abs(dy) < 500 THEN 64 ELSE 1
             d == ISqrt((k * dx) * (k * dx) + (k * dy) * (k * dy))
         IN <<RoundDiv(spd * k * dx, d), RoundDiv(spd * k * dy, d)>>

\* squared length of (dx, dy)
Norm2(dx, dy) == dx * dx + dy * dy

----------------------------------------------------------------------------
(* random *)

\* one step of the generator
NextRng(r) == (r * 75 + 74) % 65537

\* random.randint(a, b) read from the stepped generator state r
randint(r, a, b) == a + (r % (b - a + 1))

\* random.choice([-acc, acc]) read from the stepped generator state r
choice(r, acc) == IF (r \div 7) % 2 = 0 THEN -acc ELSE acc

----------------------------------------------------------------------------
(* Program constants *)

\* Player.__speed
player_speed == 5
\* RandomWalkEnemy.__acc (0.2 = 1/5, fixed point) and __max_speed
rw_acc == Scale \div 5
rw_max_speed == 2
\* ChasingEnemy.__speed (2.75 = 11/4), fixed point
chasing_speed == (11 * Scale) \div 4
\* FencingEnemy.__speed and the range of __path_rad
fencing_speed == 3
path_rad_min == 15
path_rad_max == 75
\* ChargerEnemy
hunt_speed == 2
strike_speed == 25
charge_rad == 150
charge_speed == 2
\* ChargerEnemy.__break_acc (1.5 = 3/2), fixed point
break_acc == (3 * Scale) \div 2
\* the distance to the strike target under which a strike brakes
strike_near == 25
\* Home: its size and its distance from the right edge of the screen
home_size == 20
home_margin == 100
\* Player's starting x
player_start_x == 50
\* delay of the low-level spawn chains (ms)
low_delay == 100
\* Game.update_delay: the period of the frame callback (ms)
update_delay == 33

\* ChargerEnemy.__charge_col
charge_col == [k \in {0, 10, 20} |->
                 IF k = 0 THEN "red" ELSE IF k = 10 THEN "yellow" ELSE "green"]

\* the largest key of charge_col
charge_col_max == CHOOSE k \in DOMAIN charge_col : \A j \in DOMAIN charge_col : j <= k

\* EnemyGenerator.create_enemy: enemies_type
enemies_type ==
    << [kind |-> "RandomWalk", size |-> 20, color |-> "red",    delay |-> 10000, quota |-> 5],
       [kind |-> "Chasing",    size |-> 10, color |-> "yellow", delay |-> 20000, quota |-> 2],
       [kind |-> "Fencing",    size |-> 15, color |-> "orange", delay |-> 15000, quota |-> 2],
       [kind |-> "Charger",    size |-> 18, color |-> "navy",   delay |-> 25000, quota |-> 1] >>

\* EnemyGenerator.create_enemy: low_lvl
low_lvl(kind) ==
    CASE kind = "RandomWalk" -> 5
      [] kind = "Chasing"    -> 2
      [] kind = "Fencing"    -> 4
      [] kind = "Charger"    -> 1

\* EnemyGenerator.create_enemy: high_lvl
high_lvl(kind, extra) ==
    CASE kind = "RandomWalk" -> 3 + extra
      [] kind = "Chasing"    -> 4 + extra
      [] kind = "Fencing"    -> 3 + extra
      [] kind = "Charger"    -> 3 + extra

----------------------------------------------------------------------------
(* The session as a value: the operations below map a session to a session *)

Cur ==
    [level |-> level, screen |-> screen, running |-> running, player |-> player,
     waypoint |-> waypoint, home |-> home, elements |-> elements,
     enemies |-> enemies, timers |-> timers, rng |-> rng,
     texts |-> texts, atSignal |-> atSignal]

Set(g) ==
    /\ level' = g.level
    /\ screen' = g.screen
    /\ running' = g.running
    /\ player' = g.player
    /\ waypoint' = g.waypoint
    /\ home' = g.home
    /\ elements' = g.elements
    /\ enemies' = g.enemies
    /\ timers' = g.timers
    /\ rng' = g.rng
    /\ texts' = g.texts
    /\ atSignal' = g.atSignal

\* the positions of the player and of every registered enemy
Positions(g) ==
    [player |-> g.player,
     enemies |-> [i \in 1..Len(g.elements) |-> <<g.elements[i].x, g.elements[i].y>>]]

\* Game.stop(): the session stops ticking
stop(g) == [g EXCEPT !.running = FALSE]

\* what a game_over_* call does besides its text: stop(), and the history of
\* the positions at the first call
Signal(g) ==
    [stop(g) EXCEPT !.atSignal =
        IF g.atSignal.raised THEN g.atSignal
        ELSE [raised |-> TRUE, pos |-> Positions(g)]]

game_over_win(g) == [Signal(g) EXCEPT !.texts = Append(@, "You Win")]

game_over_lose(g) == [Signal(g) EXCEPT !.texts = Append(@, "You Lose")]

----------------------------------------------------------------------------
(* Waypoint, Home, Player *)

\* Waypoint.activate(x, y), x and y in whole units (a click's pixel)
activate(g, x, y) == [g EXCEPT !.waypoint = [active |-> TRUE, x |-> FP(x), y |-> FP(y)]]

\* Waypoint.deactivate()
deactivate(g) == [g EXCEPT !.waypoint.active = FALSE]

\* a variant of contains that leaves out the right and the lower edge
contains_half_open(h, x, y) ==
    /\ 2 * h.x - FP(h.size) <= 2 * x
    /\ 2 * x < 2 * h.x + FP(h.size)
    /\ 2 * h.y - FP(h.size) <= 2 * y
    /\ 2 * y < 2 * h.y + FP(h.size)

\* Home.contains(x, y)
contains(h, x, y) ==
    /\ 2 * h.x - FP(h.size) <= 2 * x
    /\ 2 * x <= 2 * h.x + FP(h.size)
    /\ 2 * h.y - FP(h.size) <= 2 * y
    /\ 2 * y <= 2 * h.y + FP(h.size)

\* the part of Player.update that follows the home test: the move toward the
\* active waypoint and the arrival snap
PlayerMove(g) ==
    IF g.waypoint.active
    THEN LET s  == Forward(FP(player_speed), g.waypoint.x - g.player.x,
                           g.waypoint.y - g.player.y)
             nx == g.player.x + s[1]
             ny == g.player.y + s[2]
             g1 == [g EXCEPT !.player = [x |-> nx, y |-> ny]]
         IN IF Norm2(g.waypoint.x - nx, g.waypoint.y - ny)
                  < FP(player_speed) * FP(player_speed)
            THEN deactivate(g1)
            ELSE g1
    ELSE g

\* Player.update()
PlayerUpdate(g) ==
    PlayerMove(IF contains(g.home, g.player.x, g.player.y) THEN game_over_win(g) ELSE g)

----------------------------------------------------------------------------
(* Enemy and its variants *)

\* the constructors: a new enemy of the kind, not yet placed.  FencingEnemy
\* draws its patrol radius, so the constructor is given the generator state r
\* and returns the state it leaves.
NoLoc == [x |-> 0, y |-> 0]

BaseEnemy(kind, size, color) ==
    [kind |-> kind, size |-> size, color |-> color, fill |-> color,
     x |-> 0, y |-> 0,
     speed_x |-> 0, speed_y |-> 0, path_rad |-> 0, state |-> "none",
     speed |-> 0, charge_state |-> 0, charge_loc |-> NoLoc, break_dir |-> NoLoc]

NewEnemy(kind, size, color, r) ==
    CASE kind = "Fencing" ->
           LET r1 == NextRng(r)
           IN [e |-> [BaseEnemy(kind, size, color) EXCEPT
                        !.path_rad = randint(r1, path_rad_min, path_rad_max),
                        !.state = "move_up"],
               rng |-> r1]
      [] kind = "Charger" ->
           [e |-> [BaseEnemy(kind, size, color) EXCEPT
                     !.speed = FP(hunt_speed), !.state = "hunt"],
            rng |-> r]
      [] OTHER -> [e |-> BaseEnemy(kind, size, color), rng |-> r]

\* Enemy.spawn_location(): the default, in whole units, with the generator
\* state it leaves
DefaultSpawnLocation(g, r) ==
    LET w  == g.screen.w
        h  == g.screen.h
        r1 == NextRng(r)
        r2 == NextRng(r1)
        sx == IF 2 * g.player.x <= FP(w)
              THEN randint(r1, 3 * (w \div 4), w)
              ELSE randint(r1, 0, 3 * (w \div 4))
        sy == IF 2 * g.player.y <= FP(h)
              THEN randint(r2, h \div 2, h)
              ELSE randint(r2, 0, h \div 2)
    IN [x |-> FP(sx), y |-> FP(sy), rng |-> r2]

\* FencingEnemy.spawn_location()
FencingSpawnLocation(g, e, r) ==
    [x |-> g.home.x + FP(e.path_rad), y |-> g.home.y + FP(e.path_rad), rng |-> r]

spawn_location(g, e, r) ==
    IF e.kind = "Fencing" THEN FencingSpawnLocation(g, e, r)
    ELSE DefaultSpawnLocation(g, r)

\* a variant of hits_player that counts the edges of the box as a hit
hits_player_closed(e, p) ==
    /\ 2 * e.x - FP(e.size) <= 2 * p.x
    /\ 2 * p.x <= 2 * e.x + FP(e.size)
    /\ 2 * e.y - FP(e.size) <= 2 * p.y
    /\ 2 * p.y <= 2 * e.y + FP(e.size)

\* Enemy.hits_player()
hits_player(e, p) ==
    /\ 2 * e.x - FP(e.size) < 2 * p.x
    /\ 2 * p.x < 2 * e.x + FP(e.size)
    /\ 2 * e.y - FP(e.size) < 2 * p.y
    /\ 2 * p.y < 2 * e.y + FP(e.size)

\* RandomWalkEnemy.update(), before the hit test: two draws, the clamp, the
\* reflection and the integration
RandomWalkStep(e, g, r) ==
    LET r1 == NextRng(r)
        r2 == NextRng(r1)
        ax == e.speed_x + choice(r1, rw_acc)
        ay == e.speed_y + choice(r2, rw_acc)
        cx == IF ax > FP(rw_max_speed) THEN FP(rw_max_speed) ELSE ax
        cy == IF ay > FP(rw_max_speed) THEN FP(rw_max_speed) ELSE ay
        sx == IF e.x < 0 THEN Abs(cx)
              ELSE IF e.x > FP(g.screen.h) THEN -Abs(cx) ELSE cx
        sy == IF e.y < 0 THEN Abs(cy)
              ELSE IF e.y > FP(g.screen.h) THEN -Abs(cy) ELSE cy
    IN [e |-> [e EXCEPT !.speed_x = sx, !.speed_y = sy,
                        !.x = e.x + sx, !.y = e.y + sy],
        rng |-> r2]

\* ChasingEnemy.update(), before the hit test
ChasingStep(e, g) ==
    LET s == Forward(chasing_speed, g.player.x - e.x, g.player.y - e.y)
    IN [e EXCEPT !.x = e.x + s[1], !.y = e.y + s[2]]

\* a variant of move_up that tests x where the source tests y
move_up_tests_x(e, g) ==
    LET y == e.y - FP(fencing_speed)
    IN [e EXCEPT !.y = y,
                 !.state = IF e.x < g.home.y - FP(e.path_rad) THEN "move_left" ELSE @]

\* FencingEnemy.__move_up
move_up(e, g) ==
    LET y == e.y - FP(fencing_speed)
    IN [e EXCEPT !.y = y,
                 !.state = IF y < g.home.y - FP(e.path_rad) THEN "move_left" ELSE @]

\* a variant of move_left that turns back to move_up
move_left_turns_up(e, g) ==
    LET x == e.x - FP(fencing_speed)
    IN [e EXCEPT !.x = x,
                 !.state = IF x < g.home.x - FP(e.path_rad) THEN "move_up" ELSE @]

\* FencingEnemy.__move_left
move_left(e, g) ==
    LET x == e.x - FP(fencing_speed)
    IN [e EXCEPT !.x = x,
                 !.state = IF x < g.home.x - FP(e.path_rad) THEN "move_down" ELSE @]

\* FencingEnemy.__move_down
move_down(e, g) ==
    LET y == e.y + FP(fencing_speed)
    IN [e EXCEPT !.y = y,
                 !.state = IF y > g.home.y + FP(e.path_rad) THEN "move_right" ELSE @]

\* FencingEnemy.__move_right
move_right(e, g) ==
    LET x == e.x + FP(fencing_speed)
    IN [e EXCEPT !.x = x,
                 !.state = IF x > g.home.x + FP(e.path_rad) THEN "move_up" ELSE @]

\* FencingEnemy.update(), before the hit test: self.state()
FencingStep(e, g) ==
    CASE e.state = "move_up"    -> move_up(e, g)
      [] e.state = "move_left"  -> move_left(e, g)
      [] e.state = "move_down"  -> move_down(e, g)
      [] e.state = "move_right" -> move_right(e, g)

\* a variant of hunt that starts the charge only strictly inside the radius
hunt_strict(e, g) ==
    LET dx == g.player.x - e.x
        dy == g.player.y - e.y
    IN IF Norm2(dx, dy) < FP(charge_rad) * FP(charge_rad)
       THEN [e EXCEPT !.state = "charge"]
       ELSE LET s == Forward(e.speed, dx, dy)
            IN [e EXCEPT !.x = e.x + s[1], !.y = e.y + s[2]]

\* ChargerEnemy.__hunt
hunt(e, g) ==
    LET dx == g.player.x - e.x
        dy == g.player.y - e.y
    IN IF Norm2(dx, dy) <= FP(charge_rad) * FP(charge_rad)
       THEN [e EXCEPT !.state = "charge"]
       ELSE LET s == Forward(e.speed, dx, dy)
            IN [e EXCEPT !.x = e.x + s[1], !.y = e.y + s[2]]

\* a variant of charge that strikes as soon as the timer reaches the threshold
charge_at_threshold(e, g) ==
    LET t == e.charge_state + charge_speed
    IN IF t >= charge_col_max
       THEN [e EXCEPT !.charge_loc = g.player, !.state = "strike",
                      !.charge_state = 0, !.speed = FP(strike_speed)]
       ELSE [e EXCEPT !.charge_state = t]

\* a variant of charge that leaves the timer as it is on switching to strike
charge_keeps_timer(e, g) ==
    IF e.charge_state % 10 = 0 /\ e.charge_state \notin DOMAIN charge_col
    THEN [e EXCEPT !.fill = "KeyError"]
    ELSE LET e1 == IF e.charge_state % 10 = 0
                   THEN [e EXCEPT !.fill = charge_col[e.charge_state]]
                   ELSE e
             t  == e.charge_state + charge_speed
         IN IF t > charge_col_max
            THEN [e1 EXCEPT !.charge_loc = g.player, !.state = "strike",
                            !.charge_state = t, !.speed = FP(strike_speed)]
            ELSE [e1 EXCEPT !.charge_state = t]

\* ChargerEnemy.__charge; a timer value that is a multiple of 10 and no key of
\* charge_col raises KeyError, which leaves the enemy as it was
charge(e, g) ==
    IF e.charge_state % 10 = 0 /\ e.charge_state \notin DOMAIN charge_col
    THEN [e EXCEPT !.fill = "KeyError"]
    ELSE LET e1 == IF e.charge_state % 10 = 0
                   THEN [e EXCEPT !.fill = charge_col[e.charge_state]]
                   ELSE e
             t  == e.charge_state + charge_speed
         IN IF t > charge_col_max
            THEN [e1 EXCEPT !.charge_loc = g.player, !.state = "strike",
                            !.charge_state = 0, !.speed = FP(strike_speed)]
            ELSE [e1 EXCEPT !.charge_state = t]

\* ChargerEnemy.__strike
strike(e, g) ==
    LET dx == e.charge_loc.x - e.x
        dy == e.charge_loc.y - e.y
        s  == Forward(e.speed, dx, dy)
        e1 == [e EXCEPT !.x = e.x + s[1], !.y = e.y + s[2]]
    IN IF Norm2(dx, dy) < FP(strike_near) * FP(strike_near)
       THEN [e1 EXCEPT !.state = "break", !.break_dir = [x |-> dx, y |-> dy]]
       ELSE e1

\* a variant of break that returns to hunt without resetting the speed
break_keeps_speed(e, g) ==
    LET v  == e.speed - break_acc
        s  == Forward(v, e.break_dir.x, e.break_dir.y)
        e1 == [e EXCEPT !.speed = v, !.x = e.x + s[1], !.y = e.y + s[2]]
    IN IF v <= FP(hunt_speed)
       THEN [e1 EXCEPT !.fill = e.color, !.state = "hunt"]
       ELSE e1

\* ChargerEnemy.__break; the heading stored on leaving strike is kept as the
\* direction it was computed from
break(e, g) ==
    LET v  == e.speed - break_acc
        s  == Forward(v, e.break_dir.x, e.break_dir.y)
        e1 == [e EXCEPT !.speed = v, !.x = e.x + s[1], !.y = e.y + s[2]]
    IN IF v <= FP(hunt_speed)
       THEN [e1 EXCEPT !.fill = e.color, !.state = "hunt", !.speed = FP(hunt_speed)]
       ELSE e1

\* ChargerEnemy.update(), before the hit test: self.__state()
ChargerStep(e, g) ==
    CASE e.state = "hunt"   -> hunt(e, g)
      [] e.state = "charge" -> charge(e, g)
      [] e.state = "strike" -> strike(e, g)
      [] e.state = "break"  -> break(e, g)

\* the motion step of the i-th enemy's update()
EnemyStep(e, g, r) ==
    CASE e.kind = "RandomWalk" -> RandomWalkStep(e, g, r)
      [] e.kind = "Chasing"    -> [e |-> ChasingStep(e, g), rng |-> r]
      [] e.kind = "Fencing"    -> [e |-> FencingStep(e, g), rng |-> r]
      [] e.kind = "Charger"    -> [e |-> ChargerStep(e, g), rng |-> r]
      [] OTHER                 -> [e |-> e, rng |-> r]

\* whether the variant's update() ends with the hit test (DemoEnemy.update is
\* pass)
TestsHit(e) == e.kind \in {"RandomWalk", "Chasing", "Fencing", "Charger"}

\* a variant of EnemyUpdate that makes the hit test before the motion step
EnemyUpdate_tests_first(g, i) ==
    LET m  == EnemyStep(g.elements[i], g, g.rng)
        g1 == [g EXCEPT !.elements[i] = m.e, !.rng = m.rng]
    IN IF TestsHit(m.e) /\ hits_player(g.elements[i], g.player)
       THEN game_over_lose(g1)
       ELSE g1

\* update() of the i-th registered enemy
EnemyUpdate(g, i) ==
    LET m  == EnemyStep(g.elements[i], g, g.rng)
        g1 == [g EXCEPT !.elements[i] = m.e, !.rng = m.rng]
    IN IF TestsHit(m.e) /\ hits_player(m.e, g1.player)
       THEN game_over_lose(g1)
       ELSE g1

----------------------------------------------------------------------------
(* EnemyGenerator and the delayed-callback service *)

\* the callbacks with those due no later than t first, t after them
RECURSIVE InsertTimer(_, _)
InsertTimer(ts, t) ==
    IF ts = <<>> THEN <<t>>
    ELSE IF Head(ts).due <= t.due THEN <<Head(ts)>> \o InsertTimer(Tail(ts), t)
    ELSE <<t>> \o ts

\* Game.after(delay, callback): the callback is due delay ms from now; due
\* times are kept relative to the present
after(g, delay, call) ==
    [g EXCEPT !.timers = InsertTimer(@, [call EXCEPT !.due = delay])]

\* Game.add_element(element)
add_element(g, e) == [g EXCEPT !.elements = Append(@, e)]

\* TurtleAdventureGame.add_enemy(enemy)
add_enemy(g, e) == add_element([g EXCEPT !.enemies = Append(@, e)], e)

SpawnCall(kind, size, color, delay, quota) ==
    [kind |-> kind, size |-> size, color |-> color, delay |-> delay,
     quota |-> quota, due |-> 0]

\* the new enemy e is given its spawn location and registered
Place(g, e, r) ==
    LET loc == spawn_location(g, e, r)
    IN add_element([g EXCEPT !.rng = loc.rng], [e EXCEPT !.x = loc.x, !.y = loc.y])

\* a variant of spawn_enemy that re-arms with the quota it was given
spawn_enemy_same_quota(g, c) ==
    IF c.quota > 0
    THEN LET n == NewEnemy(c.kind, c.size, c.color, g.rng)
         IN after(Place(g, n.e, n.rng), c.delay, c)
    ELSE g

\* EnemyGenerator.__spawn_enemy(enemy_type, enemy_size, enemy_col, delay, spawn_quota)
spawn_enemy(g, c) ==
    IF c.quota > 0
    THEN LET n == NewEnemy(c.kind, c.size, c.color, g.rng)
         IN after(Place(g, n.e, n.rng), c.delay, [c EXCEPT !.quota = c.quota - 1])
    ELSE g

\* the calls of __spawn_enemy that create_enemy makes, in order
RECURSIVE Repeat(_, _)
Repeat(c, n) == IF n <= 0 THEN <<>> ELSE <<c>> \o Repeat(c, n - 1)

\* a variant of HighCalls that starts one chain per kind, of quota base + extra
RECURSIVE HighCallsOneChain(_, _)
HighCallsOneChain(lv, i) ==
    IF i > Len(enemies_type) THEN <<>>
    ELSE LET t == enemies_type[i]
         IN <<SpawnCall(t.kind, t.size, t.color,
                        t.delay \div (1 + lv \div 10), t.quota + lv \div 20)>>
            \o HighCallsOneChain(lv, i + 1)

RECURSIVE HighCalls(_, _)
HighCalls(lv, i) ==
    IF i > Len(enemies_type) THEN <<>>
    ELSE LET t == enemies_type[i]
         IN Repeat(SpawnCall(t.kind, t.size, t.color,
                             t.delay \div (1 + lv \div 10), t.quota),
                   high_lvl(t.kind, lv \div 20))
            \o HighCalls(lv, i + 1)

\* a variant of LowCalls that takes the quota from the configuration table
LowCallsTableQuota(lv) ==
    [i \in 1..Max(lv, 0) |->
        SpawnCall(enemies_type[i].kind, enemies_type[i].size, enemies_type[i].color,
                  low_delay, enemies_type[i].quota)]

LowCalls(lv) ==
    [i \in 1..Max(lv, 0) |->
        SpawnCall(enemies_type[i].kind, enemies_type[i].size, enemies_type[i].color,
                  low_delay, low_lvl(enemies_type[i].kind))]

RECURSIVE SpawnAll(_, _)
SpawnAll(g, calls) ==
    IF calls = <<>> THEN g ELSE SpawnAll(spawn_enemy(g, Head(calls)), Tail(calls))

\* EnemyGenerator.create_enemy()
create_enemy(g) ==
    SpawnAll(g, IF g.level < Len(enemies_type) THEN LowCalls(g.level)
                ELSE HighCalls(g.level, 1))

----------------------------------------------------------------------------
(* TurtleAdventureGame *)

NoSignal == [raised |-> FALSE, pos |-> [player |-> NoLoc, enemies |-> <<>>]]

\* TurtleAdventureGame.__init__ and init_game(): the session constructed with
\* the level lv on a w x h screen, the generator seeded with seed.  The turtle is
\* at the origin while the generator makes its first spawns and is moved to its
\* starting position after them.
init_game(lv, w, h, seed) ==
    LET g0 == [level |-> lv, screen |-> [w |-> w, h |-> h], running |-> FALSE,
               player |-> NoLoc,
               waypoint |-> [active |-> FALSE, x |-> 0, y |-> 0],
               home |-> [x |-> FP(w - home_margin), y |-> FP(h \div 2),
                         size |-> home_size],
               elements |-> <<>>, enemies |-> <<>>, timers |-> <<>>,
               rng |-> seed, texts |-> <<>>, atSignal |-> NoSignal]
        g1 == create_enemy(g0)
    IN [g1 EXCEPT !.player = [x |-> FP(player_start_x), y |-> FP(h \div 2)]]

\* the frame callback of the game loop as an entry of the delayed-callback
\* service
FrameCall == [kind |-> "animate", size |-> 0, color |-> "", delay |-> update_delay,
              quota |-> 0, due |-> 0]

\* Game.start(): the session starts ticking, the first frame pass is due at once
start(g) == after([g EXCEPT !.running = TRUE], 0, FrameCall)

\* one frame pass of the game loop from the i-th enemy on: update() of every
\* registered element in order.  Waypoint.update and Home.update do nothing and
\* the player is registered before every enemy.
RECURSIVE UpdateFrom(_, _)
UpdateFrom(g, i) ==
    IF i > Len(g.elements) THEN g ELSE UpdateFrom(EnemyUpdate(g, i), i + 1)

\* the frame callback: one pass over the elements, and the next pass is armed
\* while the session is running
Animate(g) ==
    LET g1 == UpdateFrom(PlayerUpdate(g), 1)
    IN IF g1.running THEN after(g1, update_delay, FrameCall) ELSE g1

\* the session with the callback that is due first taken from the service: time
\* advances to its due time
Fired(g) ==
    LET d == Head(g.timers).due
        rest == Tail(g.timers)
    IN [g EXCEPT !.timers = [i \in 1..Len(rest) |-> [rest[i] EXCEPT !.due = @ - d]]]

\* the state is the session g
Load(g) ==
    /\ level = g.level
    /\ screen = g.screen
    /\ running = g.running
    /\ player = g.player
    /\ waypoint = g.waypoint
    /\ home = g.home
    /\ elements = g.elements
    /\ enemies = g.enemies
    /\ timers = g.timers
    /\ rng = g.rng
    /\ texts = g.texts
    /\ atSignal = g.atSignal

----------------------------------------------------------------------------
(* Actions *)

\* the delayed-callback service fires the frame callback, which is due first
Frame ==
    /\ timers # <<>>
    /\ Head(timers).kind = "animate"
    /\ Set(Animate(Fired(Cur)))
    /\ UNCHANGED <<ticks, clicks>>

\* the same, counted: MaxTicks frame passes are explored
Tick ==
    /\ timers # <<>>
    /\ Head(timers).kind = "animate"
    /\ ticks < MaxTicks
    /\ Set(Animate(Fired(Cur)))
    /\ ticks' = ticks + 1
    /\ UNCHANGED clicks

\* a click on the canvas at pixel (x, y): the <Button-1> binding of init_game
Click(x, y) ==
    /\ clicks < MaxClicks
    /\ Set(activate(Cur, x, y))
    /\ clicks' = clicks + 1
    /\ UNCHANGED ticks

\* the delayed-callback service fires a spawn callback, which is due first
FireTimer ==
    /\ timers # <<>>
    /\ Head(timers).kind # "animate"
    /\ Set(spawn_enemy(Fired(Cur), Head(timers)))
    /\ UNCHANGED <<ticks, clicks>>

----------------------------------------------------------------------------
(* The game session: levels 1 and 2 on a small screen *)

GameLevels == {1, 2}

GameScreens == {<<200, 100>>}

ClickPoints == {<<100, 50>>, <<130, 70>>, <<60, 40>>}

Init ==
    /\ ticks = 0
    /\ clicks = 0
    /\ \E lv \in GameLevels, sc \in GameScreens, seed \in 0..MaxSeed :
          Load(start(init_game(lv, sc[1], sc[2], seed)))

Next ==
    \/ Tick
    \/ \E p \in ClickPoints : Click(p[1], p[2])
    \/ FireTimer

Spec == Init /\ [][Next]_vars

----------------------------------------------------------------------------
(* Claims about the game session, checked under Spec *)

\* C1: once game_over_win or game_over_lose has been called, the player and
\* every enemy registered at that moment stay where they were at the call.
C1_PositionsFrozenAfterSignal ==
    atSignal.raised =>
        /\ player = atSignal.pos.player
        /\ \A i \in 1..Len(atSignal.pos.enemies) :
              <<elements[i].x, elements[i].y>> = atSignal.pos.enemies[i]

\* C2: after game_over_win or game_over_lose has been called, no spawn callback
\* takes effect: no enemy is created and registered, and none is re-armed.
C2_NoSpawnAfterStop ==
    [][atSignal.raised => /\ Len(elements') = Len(elements)
                          /\ Len(timers') <= Len(timers)]_vars

\* C3: over a whole session game_over_win and game_over_lose are called at most
\* once in total (each call leaves one end message on the canvas).
C3_AtMostOneSignal == Len(texts) <= 1

----------------------------------------------------------------------------
(* The enemy generator: a session constructed at each level 0..MaxLevel and   *)
(* not started, in which only the spawn callbacks fire                        *)

SpawnScreens == {<<800, 500>>}

SpawnInit ==
    /\ ticks = 0
    /\ clicks = 0
    /\ \E lv \in 0..MaxLevel, sc \in SpawnScreens, seed \in 0..MaxSeed :
          Load(init_game(lv, sc[1], sc[2], seed))

SpawnNext == FireTimer

SpawnSpec == SpawnInit /\ [][SpawnNext]_vars

\* the levels at which termination is checked: both regimes of create_enemy
FairLevels == {1, 3, 4, 25}

SpawnFairInit ==
    /\ ticks = 0
    /\ clicks = 0
    /\ \E lv \in FairLevels, sc \in SpawnScreens, seed \in 0..MaxSeed :
          Load(init_game(lv, sc[1], sc[2], seed))

\* every due callback of the event loop is fired
SpawnFairSpec == SpawnFairInit /\ [][SpawnNext]_vars /\ WF_vars(FireTimer)

\* the number of registered enemies of a kind
Count(kind) == Cardinality({i \in 1..Len(elements) : elements[i].kind = kind})

Kinds == <<"RandomWalk", "Chasing", "Fencing", "Charger">>

\* the sum of the quotas of the pending callbacks
RECURSIVE PendingQuota(_)
PendingQuota(ts) == IF ts = <<>> THEN 0 ELSE Head(ts).quota + PendingQuota(Tail(ts))

\* C4: at a level L with 0 <= L < 4, once every spawn callback has fired and the
\* game has not ended, the enemies are those of the first L kinds in table
\* order, 5 RandomWalk, 2 Chasing, 4 Fencing, 1 Charger, and no other.
C4_LowLevelTotals ==
    (timers = <<>> /\ ~atSignal.raised /\ level >= 0 /\ level < 4) =>
        /\ \A i \in 1..4 :
              Count(Kinds[i]) = IF i <= level THEN <<5, 2, 4, 1>>[i] ELSE 0
        /\ \A j \in 1..Len(elements) : \E i \in 1..level : elements[j].kind = Kinds[i]

C4_Witness ==
    /\ timers = <<>>
    /\ level = 3
    /\ Count("RandomWalk") = 5
    /\ Count("Fencing") = 4
    /\ Count("Charger") = 0

\* C5 as stated: at a level L >= 4, once every spawn callback has fired, each
\* kind has its base quota (5, 2, 2, 1) plus L // 20 enemies.
C5_BasePlusExtra ==
    (timers = <<>> /\ ~atSignal.raised /\ level >= 4) =>
        \A i \in 1..4 : Count(Kinds[i]) = <<5, 2, 2, 1>>[i] + level \div 20

\* C5 amended: at a level L >= 4 all four kinds are introduced and, once every
\* spawn callback has fired, each kind has (chains + L // 20) * base quota
\* enemies, with 3, 4, 3, 3 chains and base quotas 5, 2, 2, 1.
C5_ChainsTimesQuota ==
    (timers = <<>> /\ ~atSignal.raised /\ level >= 4) =>
        \A i \in 1..4 :
            Count(Kinds[i]) = (<<3, 4, 3, 3>>[i] + level \div 20) * <<5, 2, 2, 1>>[i]

C5_Witness ==
    /\ timers = <<>>
    /\ level = 25
    /\ Count("RandomWalk") = 20
    /\ Count("Chasing") = 10
    /\ Count("Fencing") = 8
    /\ Count("Charger") = 4

\* C6: every spawn chain terminates.  A callback fired with quota q > 0 creates
\* one enemy and re-arms exactly one callback, of quota q - 1, after its delay;
\* one fired with quota 0 creates nothing and re-arms nothing; so a chain of
\* quota q creates q enemies, and under fair firing eventually no callback is
\* pending (and the number of enemies no longer changes).
C6_ChainsTerminate ==
    /\ [][FireTimer =>
            LET c == Head(timers)
            IN IF c.quota > 0
               THEN /\ Len(elements') = Len(elements) + 1
                    /\ Len(timers') = Len(timers)
                    /\ \E j \in 1..Len(timers') :
                          timers'[j] = [c EXCEPT !.quota = c.quota - 1, !.due = c.delay]
                    /\ PendingQuota(timers') = PendingQuota(timers) - 1
               ELSE /\ elements' = elements
                    /\ Len(timers') = Len(timers) - 1
                    /\ PendingQuota(timers') = PendingQuota(timers)]_vars
    /\ <>[](timers = <<>>)

C6_Witness ==
    /\ timers = <<>>
    /\ level = 1
    /\ Len(elements) = 5

----------------------------------------------------------------------------
(* One FencingEnemy of each patrol radius, in a running session *)

VariantScreens == {<<800, 500>>}

FencingInit ==
    /\ ticks = 0
    /\ clicks = 0
    /\ \E r \in path_rad_min..path_rad_max, sc \in VariantScreens :
          LET g == init_game(0, sc[1], sc[2], 0)
              e == [NewEnemy("Fencing", 15, "orange", 0).e EXCEPT !.path_rad = r]
          IN Load(start(Place(g, e, 0)))

FencingNext == Frame

FencingSpec == FencingInit /\ [][FencingNext]_vars

\* C7 as stated: a FencingEnemy stays inside the patrol square home +- r.
C7_InsidePatrolSquare ==
    \A i \in 1..Len(elements) :
        elements[i].kind = "Fencing" =>
            /\ Abs(elements[i].x - home.x) <= FP(elements[i].path_rad)
            /\ Abs(elements[i].y - home.y) <= FP(elements[i].path_rad)

\* C7 amended: a FencingEnemy stays inside the patrol square enlarged by one
\* step (3) on every side: it turns on the first update that ends strictly
\* beyond home +- r, so it is at most one step beyond.
C7_InsideSquarePlusStep ==
    \A i \in 1..Len(elements) :
        elements[i].kind = "Fencing" =>
            /\ Abs(elements[i].x - home.x) <= FP(elements[i].path_rad + fencing_speed)
            /\ Abs(elements[i].y - home.y) <= FP(elements[i].path_rad + fencing_speed)

\* an enemy of radius 15 that has gone one whole step beyond the upper edge and
\* turned
C7_Witness ==
    /\ Len(elements) = 1
    /\ elements[1].path_rad = 15
    /\ elements[1].state = "move_left"
    /\ elements[1].y = home.y - FP(15 + fencing_speed)

----------------------------------------------------------------------------
(* The player alone: clicks around the starting position and toward Home *)

PlayerScreens == {<<200, 100>>}

PlayerClicks == {<<52, 50>>, <<50, 50>>, <<54, 53>>, <<58, 50>>, <<62, 66>>, <<100, 50>>}

PlayerInit ==
    /\ ticks = 0
    /\ clicks = 0
    /\ \E sc \in PlayerScreens : Load(start(init_game(0, sc[1], sc[2], 0)))

PlayerNext ==
    \/ Frame
    \/ \E p \in PlayerClicks : Click(p[1], p[2])

PlayerSpec == PlayerInit /\ [][PlayerNext]_vars

\* C8: every Player.update made while the waypoint is active leaves the player
\* no farther from the waypoint than it was, whatever the starting distance.
C8_DistanceNeverGrows ==
    [][(Frame /\ waypoint.active) =>
          Norm2(waypoint.x - player'.x, waypoint.y - player'.y)
              <= Norm2(waypoint.x - player.x, waypoint.y - player.y)]_vars

----------------------------------------------------------------------------
(* One ChargerEnemy in a running session, the player still or walking *)

\* where the charger is put (new_enemy.x, new_enemy.y of __spawn_enemy), in
\* whole units: at 150 and just over 150 from the player's start, on a 3-4-5
\* direction at 200, and in the spawn quadrant
ChargerSpots == {<<200, 250>>, <<201, 250>>, <<170, 410>>, <<230, 370>>, <<640, 300>>}

\* the waypoint when the session is observed: none, or one the player walks to
ChargerWaypoints == {<<0, 0, FALSE>>, <<400, 250, TRUE>>, <<50, 450, TRUE>>, <<300, 20, TRUE>>}

ChargerInit ==
    /\ ticks = 0
    /\ clicks = 0
    /\ \E c \in ChargerSpots, wp \in ChargerWaypoints, sc \in VariantScreens :
          LET g  == init_game(0, sc[1], sc[2], 0)
              e  == [NewEnemy("Charger", 18, "navy", 0).e EXCEPT
                        !.x = FP(c[1]), !.y = FP(c[2])]
              g1 == start(add_element(g, e))
          IN Load(IF wp[3] THEN activate(g1, wp[1], wp[2]) ELSE g1)

ChargerNext == Frame

ChargerSpec == ChargerInit /\ [][ChargerNext]_vars

\* C9: in a frame pass that finds the charger in hunt, with d the distance to
\* the player at the start of the charger's update (the player is updated
\* first): if d > 150 the charger stays in hunt and moves 2 toward the player
\* (2 within the fixed-point rounding, and the distance shrinks by it); if
\* d <= 150 it ends the update in charge, where it was.  Hunt leads nowhere else.
C9_HuntToCharge ==
    [][(Frame /\ elements[1].state = "hunt") =>
          LET e  == elements[1]
              f  == elements'[1]
              d2 == Norm2(player'.x - e.x, player'.y - e.y)
          IN IF d2 > FP(charge_rad) * FP(charge_rad)
             THEN /\ f.state = "hunt"
                  /\ Norm2(f.x - e.x, f.y - e.y) >= (FP(2) - 2) * (FP(2) - 2)
                  /\ Norm2(f.x - e.x, f.y - e.y) <= (FP(2) + 2) * (FP(2) + 2)
                  /\ ISqrt(Norm2(player'.x - f.x, player'.y - f.y))
                        <= ISqrt(d2) - FP(2) + 2
             ELSE /\ f.state = "charge"
                  /\ f.x = e.x
                  /\ f.y = e.y]_vars

\* a charger that hunted its way to the player and has just switched to charge
C9_Witness ==
    /\ Len(elements) = 1
    /\ elements[1].state = "charge"
    /\ elements[1].charge_state = 0
    /\ elements[1].x # FP(200)
    /\ Norm2(player.x - elements[1].x, player.y - elements[1].y)
          <= FP(charge_rad) * FP(charge_rad)

\* C10: in a frame pass that finds the charger in charge, the timer grows by 2;
\* exactly when the grown timer exceeds 20 the charger ends the update in
\* strike, with the player's position at that instant as its strike target,
\* speed 25 and the timer back at 0.  While it strikes the target stays the
\* same, wherever the player goes.
C10_ChargeToStrike ==
    /\ [][(Frame /\ elements[1].state = "charge") =>
             LET e == elements[1]
                 f == elements'[1]
             IN IF e.charge_state + 2 > 20
                THEN /\ f.state = "strike"
                     /\ f.charge_loc = player'
                     /\ f.speed = FP(25)
                     /\ f.charge_state = 0
                ELSE /\ f.state = "charge"
                     /\ f.charge_state = e.charge_state + 2
                     /\ f.charge_loc = e.charge_loc]_vars
    /\ [][(elements[1].state = "strike" /\ elements'[1].state = "strike") =>
             elements'[1].charge_loc = elements[1].charge_loc]_vars

\* a charger in strike whose target is no longer where the player is
C10_Witness ==
    /\ Len(elements) = 1
    /\ elements[1].state = "strike"
    /\ elements[1].charge_loc # player
    /\ elements[1].speed = FP(25)

\* C11: a charger in strike switches to brake exactly when its distance to the
\* captured target first is < 25: an update that starts in strike never ends
\* still in strike closer than 25 to the target, and never ends in brake
\* unless the distance was < 25 at its start or is < 25 at its end.
C11_StrikeToBrake ==
    [][(Frame /\ elements[1].state = "strike") =>
          LET e      == elements[1]
              f      == elements'[1]
              d0 == Norm2(e.charge_loc.x - e.x, e.charge_loc.y - e.y)
              d1 == Norm2(f.charge_loc.x - f.x, f.charge_loc.y - f.y)
          IN /\ f.state \in {"strike", "break"}
             /\ f.state = "strike" => d1 >= FP(25) * FP(25)
             /\ f.state = "break" =>
                   (d0 < FP(25) * FP(25) \/ d1 < FP(25) * FP(25))]_vars

\* C12: every update in brake lowers the speed by 1.5 and moves the charger by
\* the lowered speed along the heading stored on leaving strike (within the
\* fixed-point rounding); the first update whose lowered speed is <= 2 ends in
\* hunt with speed exactly 2, every other one stays in brake with the heading
\* kept; so the charger, which starts in hunt with speed 2, is in hunt only
\* with speed 2, and the speed in brake is above 2 and at most 25: as every
\* update in brake lowers it by 1.5, brake is left after at most 16 updates.
C12_BrakeToHunt ==
    /\ [][(Frame /\ elements[1].state = "break") =>
             LET e  == elements[1]
                 f  == elements'[1]
                 v  == e.speed - (3 * Scale) \div 2
                 mx == f.x - e.x
                 my == f.y - e.y
             IN /\ Norm2(mx, my) >= (v - 2) * (v - 2)
                /\ Norm2(mx, my) <= (v + 2) * (v + 2)
                /\ Abs(mx * e.break_dir.y - my * e.break_dir.x)
                      <= Abs(e.break_dir.x) + Abs(e.break_dir.y)
                /\ mx * e.break_dir.x + my * e.break_dir.y >= 0
                /\ IF v <= FP(2)
                   THEN f.state = "hunt" /\ f.speed = FP(2)
                   ELSE f.state = "break" /\ f.speed = v
                        /\ f.break_dir = e.break_dir]_vars
    /\ elements[1].state = "hunt" /\ elements[1].speed = FP(2)
    /\ [][/\ elements'[1].state = "hunt" => elements'[1].speed = FP(2)
          /\ elements'[1].state = "break" =>
                (elements'[1].speed > FP(2) /\ elements'[1].speed <= FP(25))]_vars

\* a charger back in hunt after a strike and a brake along a slanted heading
C12_Witness ==
    /\ Len(elements) = 1
    /\ elements[1].state = "hunt"
    /\ elements[1].speed = FP(2)
    /\ elements[1].break_dir.x # 0
    /\ elements[1].break_dir.y # 0
    /\ running

----------------------------------------------------------------------------
(* One enemy of each variant next to the player, in a running session *)

\* kind, size and colour of the enemy, where it is (whole units), and where the
\* player stands relative to it (fixed point): inside its box, on an edge or a
\* corner of the box, outside, before or after the enemy's next steps
ContactCases ==
    {<<"Demo", 20, "black", 400, 300, 0, 0>>,
     <<"Demo", 20, "black", 400, 300, FP(10), 0>>,
     <<"Chasing", 10, "yellow", 400, 300, 155, 0>>,
     <<"Chasing", 10, "yellow", 400, 300, 0, -155>>,
     <<"Chasing", 10, "yellow", 400, 300, FP(30), 0>>,
     <<"Chasing", 10, "yellow", 400, 300, FP(18), FP(24)>>,
     <<"Fencing", 15, "orange", 715, 265, 150, -FP(15)>>,
     <<"Fencing", 15, "orange", 715, 265, 140, -FP(15)>>,
     <<"Fencing", 15, "orange", 715, 265, -150, -270>>,
     <<"Fencing", 15, "orange", 715, 265, 0, -270>>,
     <<"Fencing", 15, "orange", 715, 265, -FP(20), -FP(33)>>,
     <<"Charger", 18, "navy", 400, 300, FP(9), 0>>,
     <<"Charger", 18, "navy", 400, 300, FP(9), FP(9)>>,
     <<"Charger", 18, "navy", 400, 300, FP(9) - 1, 1 - FP(9)>>,
     <<"Charger", 18, "navy", 400, 300, -FP(60), FP(80)>>,
     <<"Charger", 18, "navy", 400, 300, FP(160), 0>>,
     <<"RandomWalk", 20, "red", 400, 300, FP(10), 0>>,
     <<"RandomWalk", 20, "red", 400, 300, FP(10) - 4, FP(10) - 4>>,
     <<"RandomWalk", 20, "red", 400, 300, FP(10) + 4, 0>>,
     <<"RandomWalk", 20, "red", 400, 300, 0, 4 - FP(10)>>,
     <<"RandomWalk", 20, "red", 400, 300, FP(11), FP(11)>>}

ContactInit ==
    /\ ticks = 0
    /\ clicks = 0
    /\ \E c \in ContactCases, seed \in 0..MaxSeed, sc \in VariantScreens :
          LET g  == init_game(0, sc[1], sc[2], seed)
              n  == NewEnemy(c[1], c[2], c[3], seed)
              r  == IF c[1] = "Fencing" THEN (c[4] - 700) ELSE 0
              e  == [n.e EXCEPT !.x = FP(c[4]), !.y = FP(c[5]), !.path_rad = r]
              g1 == add_enemy([g EXCEPT !.rng = n.rng], e)
          IN Load(start([g1 EXCEPT !.player = [x |-> e.x + c[6], y |-> e.y + c[7]]]))

ContactNext == Tick

ContactSpec == ContactInit /\ [][ContactNext]_vars

\* the number of "You Lose" messages among the end messages t
Loses(t) == Cardinality({i \in 1..Len(t) : t[i] = "You Lose"})

\* C13 as stated: for every variant, Demo included, an enemy's update signals
\* game_over_lose exactly when hits_player is true at its end: in one frame
\* pass the number of lose signals is the number of enemies that hit the player
\* where the pass leaves them.
C13_EveryUpdateTestsHit ==
    [][Tick =>
          Loses(texts') - Loses(texts) =
              Cardinality({i \in 1..Len(elements') :
                              hits_player(elements'[i], player')})]_vars

\* C13 amended: the same for the RandomWalk, Chasing, Fencing and Charger
\* enemies; DemoEnemy.update does nothing, so a Demo enemy never signals.
C13_MovingVariantsTestHit ==
    [][Tick =>
          Loses(texts') - Loses(texts) =
              Cardinality({i \in 1..Len(elements') :
                              /\ elements'[i].kind # "Demo"
                              /\ hits_player(elements'[i], player')})]_vars

\* a Fencing enemy has walked into the player and the game is lost
C13_Witness ==
    /\ Len(elements) = 1
    /\ elements[1].kind = "Fencing"
    /\ elements[1].y < FP(265)
    /\ hits_player(elements[1], player)
    /\ texts = <<"You Lose">>

\* the player's position p is strictly inside the box of side size centred on e
StrictlyInside(e, p) ==
    /\ e.x - (FP(e.size) \div 2) < p.x
    /\ p.x < e.x + (FP(e.size) \div 2)
    /\ e.y - (FP(e.size) \div 2) < p.y
    /\ p.y < e.y + (FP(e.size) \div 2)

\* the player's position p is on the boundary of that box
OnBoundary(e, p) ==
    /\ Abs(p.x - e.x) <= FP(e.size) \div 2
    /\ Abs(p.y - e.y) <= FP(e.size) \div 2
    /\ ~StrictlyInside(e, p)

\* C16: hits_player() is true exactly when the player is strictly inside the
\* enemy's box, for every variant (a player on an edge or a corner is not hit);
\* and an update that ends with the hit test loses the game exactly then.
C16_HitIffStrictlyInside ==
    [][Tick =>
          \A i \in 1..Len(elements') :
              LET e == elements'[i]
              IN /\ hits_player(e, player') <=> StrictlyInside(e, player')
                 /\ e.kind # "Demo" =>
                       (Loses(texts') = Loses(texts) + 1 <=> StrictlyInside(e, player'))]_vars

\* an update has left the player exactly on the boundary of the enemy's box
\* and the game goes on
C16_Witness ==
    /\ ticks > 0
    /\ Len(elements) = 1
    /\ elements[1].kind # "Demo"
    /\ OnBoundary(elements[1], player)
    /\ texts = <<>>
    /\ running

----------------------------------------------------------------------------
(* Spawns at level 4 (delays of 10 s and more) while the player stands in    *)
(* each quadrant of the screen                                              *)

\* where the player stands when the spawn callbacks fire, in whole units
QuadrantSpots == {<<50, 250>>, <<100, 400>>, <<600, 100>>, <<600, 400>>, <<400, 250>>}

QuadrantInit ==
    /\ ticks = 0
    /\ clicks = 0
    /\ \E p \in QuadrantSpots, seed \in 0..MaxSeed, sc \in SpawnScreens :
          Load([init_game(4, sc[1], sc[2], seed) EXCEPT
                  !.player = [x |-> FP(p[1]), y |-> FP(p[2])]])

QuadrantNext == FireTimer

QuadrantSpec == QuadrantInit /\ [][QuadrantNext]_vars

\* C14: every enemy that a spawn callback places with the default
\* spawn_location (RandomWalk, Chasing, Charger) is put in the quadrant
\* diagonally opposite the player's: on the other side of screen_width / 2 from
\* player.x and on the other side of screen_height / 2 from player.y (the
\* midlines counted with either side).
C14_OppositeQuadrant ==
    [][(FireTimer /\ Len(elements') > Len(elements)) =>
          LET e == elements'[Len(elements')]
          IN e.kind # "Fencing" =>
                /\ 2 * player.x <= FP(screen.w) => 2 * e.x >= FP(screen.w)
                /\ 2 * player.x > FP(screen.w) => 2 * e.x <= FP(screen.w)
                /\ 2 * player.y <= FP(screen.h) => 2 * e.y >= FP(screen.h)
                /\ 2 * player.y > FP(screen.h) => 2 * e.y <= FP(screen.h)]_vars

----------------------------------------------------------------------------
(* The session's enemy collection, checked under SpawnSpec *)

\* C15: every enemy the generator has spawned is a member of
\* TurtleAdventureGame.enemies: the collection holds exactly the enemies
\* spawned so far, in order.
C15_SpawnedEnemiesOwned == enemies = elements

----------------------------------------------------------------------------
(* The player around Home, still or walking into it *)

HomeScreens == {<<800, 500>>, <<300, 201>>}

\* the player's offsets from Home's centre on each axis (fixed point): just
\* outside, on the edge, inside
HomeOffsets == {-FP(10) - 1, -FP(10), 0, FP(10), FP(10) + 1}

\* starts of a walk to Home's centre, as offsets from it (fixed point)
HomeWalks == {<<-FP(25), 0>>, <<FP(30), 0>>, <<0, -FP(20)>>, <<FP(12), FP(16)>>}

HomeInit ==
    /\ ticks = 0
    /\ clicks = 0
    /\ \E sc \in HomeScreens :
          LET g == start(init_game(0, sc[1], sc[2], 0))
          IN \/ \E dx \in HomeOffsets, dy \in HomeOffsets :
                   Load([g EXCEPT !.player = [x |-> g.home.x + dx, y |-> g.home.y + dy]])
             \/ \E s \in HomeWalks :
                   Load([activate(g, sc[1] - home_margin, sc[2] \div 2) EXCEPT
                            !.player = [x |-> g.home.x + s[1], y |-> g.home.y + s[2]]])

HomeNext == Tick

HomeSpec == HomeInit /\ [][HomeNext]_vars

\* the number of "You Win" messages among the end messages t
Wins(t) == Cardinality({i \in 1..Len(t) : t[i] = "You Win"})

\* the point p is in the closed square of side h.size centred on h
InClosedSquare(h, p) ==
    /\ h.x - (FP(h.size) \div 2) <= p.x
    /\ p.x <= h.x + (FP(h.size) \div 2)
    /\ h.y - (FP(h.size) \div 2) <= p.y
    /\ p.y <= h.y + (FP(h.size) \div 2)

\* C17: Home.contains(p) is true exactly when p is in the closed square of side
\* size centred on Home, edges and corners included; Player.update, which
\* tests it on the position it starts from, wins the game exactly then.
C17_ContainsIffInClosedSquare ==
    [][Tick =>
          /\ contains(home, player.x, player.y) <=> InClosedSquare(home, player)
          /\ Wins(texts') = Wins(texts) + 1 <=> InClosedSquare(home, player)
          /\ Wins(texts') = Wins(texts) <=> ~InClosedSquare(home, player)]_vars

\* the player has won standing on the upper right corner of Home
C17_Witness ==
    /\ ticks > 0
    /\ player.x = home.x + FP(10)
    /\ player.y = home.y - FP(10)
    /\ texts = <<"You Win">>
    /\ ~running

----------------------------------------------------------------------------
(* Sessions constructed with well-formed and with malformed parameters *)

ConfigLevels == {-1, 1, 2}

ConfigScreens == {<<0, 0>>, <<0, 100>>, <<200, 0>>, <<200, 100>>}

ConfigInit ==
    /\ ticks = 0
    /\ clicks = 0
    /\ \E lv \in ConfigLevels, sc \in ConfigScreens, seed \in 0..MaxSeed :
          Load(init_game(lv, sc[1], sc[2], seed))

ConfigNext == FireTimer

ConfigSpec == ConfigInit /\ [][ConfigNext]_vars

\* C18: a session constructed with a negative level or with a zero screen
\* width or height is rejected: no player is created and placed, no enemy is
\* created and no spawn callback is armed.
C18_MalformedRejected ==
    (level < 0 \/ screen.w = 0 \/ screen.h = 0) =>
        /\ player # [x |-> FP(player_start_x), y |-> FP(screen.h \div 2)]
        /\ elements = <<>>
        /\ timers = <<>>

----------------------------------------------------------------------------------------------------------------------------------------
(* The patrol cycle of the FencingEnemy, checked under FencingSpec *)

\* the state that follows s in the patrol cycle
NextInCycle(s) ==
    CASE s = "move_up"    -> "move_left"
      [] s = "move_left"  -> "move_down"
      [] s = "move_down"  -> "move_right"
      [] s = "move_right" -> "move_up"

\* how far the enemy e still is from the line at which its state turns, along
\* the direction it moves in
ToTurn(e, h) ==
    CASE e.state = "move_up"    -> e.y - (h.y - FP(e.path_rad))
      [] e.state = "move_left"  -> e.x - (h.x - FP(e.path_rad))
      [] e.state = "move_down"  -> (h.y + FP(e.path_rad)) - e.y
      [] e.state = "move_right" -> (h.x + FP(e.path_rad)) - e.x

\* C19: a FencingEnemy starts in move_up; an update leaves its state as it is
\* or changes it to the next state of the cycle move_up -> move_left ->
\* move_down -> move_right -> move_up, and nothing else changes it.  Every
\* update brings the enemy 3 closer to the line at which its state turns; the
\* state is kept while the line is not passed and left on the update that
\* passes it, so for every patrol radius each state is left after at most
\* (2 * r + 6) / 3 + 1 updates and the cycle goes on while the game runs.
C19_PatrolCycle ==
    /\ elements[1].state = "move_up"
    /\ [][\/ elements'[1].state = elements[1].state
          \/ /\ Frame
             /\ elements'[1].state = NextInCycle(elements[1].state)]_vars
    /\ [][Frame =>
             LET e == elements[1]
                 f == elements'[1]
                 d == ToTurn(e, home) - FP(3)
             IN /\ ToTurn(e, home) <= 2 * FP(e.path_rad) + FP(3)
                /\ IF d >= 0
                   THEN f.state = e.state /\ ToTurn(f, home) = d
                   ELSE f.state = NextInCycle(e.state)]_vars

\* a FencingEnemy of the largest radius back in move_up after a whole round
C19_Witness ==
    /\ Len(elements) = 1
    /\ elements[1].path_rad = path_rad_max
    /\ elements[1].state = "move_up"
    /\ elements[1].x > home.x + FP(path_rad_max)
    /\ running

----------------------------------------------------------------------------
(* RandomWalk enemies of a level 1 session on a small screen *)

WalkScreens == {<<16, 16>>}

\* seeds of the random generator
WalkSeeds == {0, 1, 2, 3, 4, 3082}

WalkInit ==
    /\ ticks = 0
    /\ clicks = 0
    /\ \E seed \in WalkSeeds, sc \in WalkScreens :
          Load(start(init_game(1, sc[1], sc[2], seed)))

WalkNext ==
    \/ Tick
    \/ FireTimer

WalkSpec == WalkInit /\ [][WalkNext]_vars

\* C20: after the acceleration, the clamp and the reflection each velocity
\* component of a RandomWalkEnemy is at most max_speed (2), so an update never
\* increases x or y by more than 2.
C20_VelocityAtMostMaxSpeed ==
    [][Tick =>
          \A i \in 1..Len(elements) :
              elements[i].kind = "RandomWalk" =>
                  /\ elements'[i].speed_x <= FP(2)
                  /\ elements'[i].speed_y <= FP(2)
                  /\ elements'[i].x - elements[i].x <= FP(2)
                  /\ elements'[i].y - elements[i].y <= FP(2)]_vars

----------------------------------------------------------------------------
(* The charge timer of the ChargerEnemy, checked under ChargerSpec *)

\* C21: over any number of hunt/charge/strike/brake cycles the charge timer is
\* 0 outside charge, so 0 whenever charge is entered, and an even number in
\* 0..20 at the start of every charge update; the palette lookup, made when
\* the timer is a multiple of 10, finds one of the keys 0, 10, 20 and sets its
\* colour, and never fails; an update in charge adds 2 to the timer and leaves
\* charge exactly when it started with the timer at 20, so every charge phase
\* lasts 11 updates.
C21_ChargeTimer ==
    /\ elements[1].state = "hunt" /\ elements[1].charge_state = 0
    /\ [][LET f == elements'[1]
          IN /\ f.fill # "KeyError"
             /\ f.state # "charge" => f.charge_state = 0
             /\ f.state = "charge" =>
                   f.charge_state \in {2 * k : k \in 0..10}]_vars
    /\ [][(Frame /\ elements[1].state = "charge") =>
             LET e == elements[1]
                 f == elements'[1]
             IN /\ e.charge_state % 10 = 0 =>
                      /\ e.charge_state \in {0, 10, 20}
                      /\ f.fill = <<"red", "yellow", "green">>[e.charge_state \div 10 + 1]
                /\ e.charge_state % 10 # 0 => f.fill = e.fill
                /\ IF e.charge_state = 20
                   THEN f.state = "strike"
                   ELSE f.state = "charge" /\ f.charge_state = e.charge_state + 2]_vars

\* a charger that has struck and braked once is in its second charge phase,
\* about to make the last palette lookup
C21_Witness ==
    /\ Len(elements) = 1
    /\ elements[1].state = "charge"
    /\ elements[1].charge_state = 20
    /\ elements[1].break_dir # NoLoc
    /\ elements[1].fill = "yellow"
    /\ running

====
